---- MODULE Spec2Model ----
(***************************************************************************)
(* Chunked video upload, assembly, HLS transcoding and streaming of the    *)
(* hockey-analytics backend (backend/app/routes/videos.py and              *)
(* backend/app/services/video_processor.py, streaming.py).                 *)
(*                                                                         *)
(* The request handlers are asyncio coroutines: a handler runs without     *)
(* interruption between two `await` points that really suspend, so every   *)
(* action below is the code between two such points.  The metadata table   *)
(* ('videos') and the blob bucket ('videos') are the shared state; the     *)
(* local directories /tmp/videos/{id} and /tmp/hls/{id} are shared by all  *)
(* handlers that work on the same video.                                   *)
(*                                                                         *)
(* The environment decides the outcome of every call that can raise (blob  *)
(* upload, download and removal, table update, ffprobe, ffmpeg, rmtree).   *)
(* The outcome of ffmpeg is free for every rendition.  The other failures   *)
(* and every request that leaves the client protocol init, putChunk...,    *)
(* complete (a request the server rejects with 400 or 404, a request that  *)
(* overlaps another one, a putChunk or complete() for a video whose status  *)
(* has left 'uploaded') are counted in `disturbances` and bounded by        *)
(* MaxDisturbances.  The table update of the except branches (videos.py    *)
(* lines 101 and 355) is taken to succeed.                                 *)
(*                                                                         *)
(* Spec is the ingestion with its disturbances.  ReadSpec adds the read     *)
(* endpoints, PoolSpec a second video and LiveSpec an ffmpeg process that   *)
(* never exits, each to an ingestion without disturbances; FpsSpec applies  *)
(* the frame-rate parser of get_video_metadata to the strings ffprobe may   *)
(* report.                                                                  *)
(***************************************************************************)
EXTENDS Integers, Sequences, FiniteSets, Bags, TLC

VARIABLES
    videos,     \* the 'videos' table: video id -> row
    storage,    \* the 'videos' bucket: blob path -> content
    put,        \* upload_chunk requests in flight: a bag of handler frames
    run,        \* complete_upload requests in flight: a bag of handler frames
    tmpVideo,   \* /tmp/videos/{id}/assembled.mp4, per video id (directory exists iff in DOMAIN)
    hlsDir,     \* /tmp/hls/{id}: the set of file names in it (directory exists iff in DOMAIN)
    last,       \* the request step that was taken last, with the response it produced
    disturbances \* how many faults and out-of-protocol requests the environment has caused so far

vars == <<videos, storage, put, run, tmpVideo, hlsDir, last, disturbances>>

----------------------------------------------------------------------------
(* Bounds of the model *)

MaxUploaded == 2    \* cap on the length of metadata['uploaded_chunks']
MaxFpsAtoms == 5    \* cap on the length of an r_frame_rate string, in atoms
MaxDisturbances == 1 \* per behaviour: faults (a raising storage, table, ffprobe or rmtree
                     \* call), requests started out of turn and requests the server
                     \* rejects with 400 or 404

VideoIds == {"v1"}                  \* the uuid4 values init hands out as video ids
Orgs == {"orgX"}

\* uuid4 session id handed out with a video id; "s0" is an id that was never issued
SessionOf(v) == "s_" \o v
SessionIds == {SessionOf(v) : v \in VideoIds} \cup {"s0"}

----------------------------------------------------------------------------
(* Form fields arrive as strings and are converted with int() *)

IntTable ==
    [s \in {"-1", "0", "1", "2", "3", "4"} |->
        CASE s = "-1" -> 0 - 1 [] s = "0" -> 0 [] s = "1" -> 1
          [] s = "2" -> 2 [] s = "3" -> 3 [] s = "4" -> 4]

IsInt(s) == s \in DOMAIN IntTable
ToInt(s) == IntTable[s]

\* what a client sends as total_chunks, chunk_index and file_size: a session of two
\* chunks can receive both of its indexes, a session of one chunk also an index
\* outside its range
ChunkCountInputs == {"abc", "1", "2"}
ChunkIndexInputs == {"abc", "0", "1"}
FileSizeInputs == {"abc", "0", "1"}
\* the init forms sent: a file_size of "0" comes with a total_chunks of at most 1
InitInputs ==
    {in \in FileSizeInputs \X ChunkCountInputs :
        /\ ~IsInt(in[1]) => in[2] = "1"
        /\ ~IsInt(in[2]) => in[1] = "1"
        /\ in[1] = "0" => IsInt(in[2]) /\ ToInt(in[2]) <= 1}

\* f"chunk_{i:04d}.tmp"
ChunkFileName(i) ==
    CASE i = 0 - 1 -> "chunk_-001.tmp"
      [] i = 0 -> "chunk_0000.tmp"
      [] i = 1 -> "chunk_0001.tmp"
      [] i = 2 -> "chunk_0002.tmp"
      [] i = 3 -> "chunk_0003.tmp"
      [] i = 4 -> "chunk_0004.tmp"

----------------------------------------------------------------------------
(* Bytes.  A chunk body is one of two distinguishable blocks; the sizes    *)
(* are chosen so that two chunks land on either side of the 50MB limit.    *)

SizeLimit == 52428800       \* 50 * 1024 * 1024

Payloads == { [tag |-> "b0", size |-> SizeLimit \div 2],
              [tag |-> "b1", size |-> (SizeLimit \div 2) + 1] }

RECURSIVE ByteSize(_)
ByteSize(data) ==
    IF data = <<>> THEN 0 ELSE Head(data).size + ByteSize(Tail(data))

----------------------------------------------------------------------------
(* Blob paths *)

ChunkPath(org, vid, i) == <<org, vid, "chunks", ChunkFileName(i)>>
\* a path of the consolidated blob that leaves the video id out
OriginalPathPerOrg(org, vid) == <<org, "original.mp4">>
OriginalPath(org, vid) == <<org, vid, "original.mp4">>
StreamPath(org, vid) == <<"videos", org, vid, "original.mp4">>
HlsPath(org, vid, f) == <<"videos", org, vid, "hls", f>>
HlsManifestUrl(org, vid) == <<"videos", org, vid, "hls", "master.m3u8">>

----------------------------------------------------------------------------
(* Python dict and table helpers *)

DictGet(d, k, default) == IF k \in DOMAIN d THEN d[k] ELSE default
DictUpdate(d, new) == new @@ d

\* supabase.table('videos').update(fields).eq('id', vid).execute()
TableUpdate(tbl, vid, fields) ==
    IF vid \in DOMAIN tbl THEN [tbl EXCEPT ![vid] = fields @@ tbl[vid]] ELSE tbl

\* a lookup that returns every row that has a session id, whatever id was asked for
FindAnySession(tbl, sid) ==
    {v \in DOMAIN tbl : "session_id" \in DOMAIN tbl[v].metadata}

\* supabase.table('videos').select('*').eq('metadata->>session_id', sid).execute().data
FindBySession(tbl, sid) ==
    {v \in DOMAIN tbl : DictGet(tbl[v].metadata, "session_id", "None") = sid}

InFlight == BagCardinality(put) + BagCardinality(run)

\* the environment causes n more disturbances
Disturb(n) == /\ disturbances + n <= MaxDisturbances
              /\ disturbances' = disturbances + n
\* a request for video v that arrives while another request is in flight or after
\* the status of v has left 'uploaded'
OutOfTurn(v) == IF InFlight > 0 \/ videos[v].status # "uploaded" THEN 1 ELSE 0
Fault(failed) == IF failed THEN 1 ELSE 0

\* a step of a request handler and the response it sent: op is the handler step
\* ("init", "chunk", "complete", and "probe" and "transcode" for the later steps of
\* complete_upload; "upload" and "upload_hls" for the steps of upload_video;
\* "stream" and "hls" for the two read endpoints), code
\* the HTTP status (0: the handler is suspended at an await), vid the row the
\* handler works on ("" when it found none), n the chunk index of a chunk step and
\* the length of `playlists` after a step of convert_to_hls, log the lines the
\* step wrote with logger.warning and logger.error, sid the session id that
\* upload_chunk looked up, out the response of the streaming endpoints
Event(op, code, vid, n) ==
    [op |-> op, code |-> code, vid |-> vid, n |-> n, log |-> {}, sid |-> "", out |-> <<>>]
Logged(e, lines) == [e EXCEPT !.log = lines]
LookedUp(e, sid) == [e EXCEPT !.sid = sid]
Answered(e, out) == [e EXCEPT !.out = out]

\* the log lines of the handlers
FfmpegError(name) == "FFmpeg error for " \o name
ProbeWarning == "Could not extract video metadata"
StatusUpdateError == "Failed to update video status"
AssembleError(cause) == {"Failed to assemble chunks: " \o cause}
ProcessUploadError(cause) == {"Error processing upload: " \o cause}
NoStreams == "No HLS streams were successfully created"

----------------------------------------------------------------------------

Init ==
    /\ videos = <<>>
    /\ storage = <<>>
    /\ put = EmptyBag
    /\ run = EmptyBag
    /\ tmpVideo = <<>>
    /\ hlsDir = <<>>
    /\ last = Event("start", 0, "", 0)
    /\ disturbances = 0

----------------------------------------------------------------------------
(* POST /upload/init *)

\* uuid: the value uuid.uuid4() returns for the video id (line 162)
init_chunked_upload(file_size, total_chunks, org_id, uuid) ==
    IF ~(IsInt(file_size) /\ IsInt(total_chunks))
    THEN /\ last' = Event("init", 400, "", 0)
         /\ Disturb(1)
         /\ UNCHANGED <<videos, storage, put, run, tmpVideo, hlsDir>>
    ELSE \E video_id \in {uuid} \ DOMAIN videos :
            LET session_id == SessionOf(video_id)
                row == [organization_id |-> org_id,
                        storage_path |-> OriginalPath(org_id, video_id),
                        file_size_bytes |-> ToInt(file_size),
                        status |-> "uploaded",
                        metadata |-> [session_id |-> session_id,
                                      total_chunks |-> ToInt(total_chunks),
                                      uploaded_chunks |-> <<>>]]
            IN  /\ videos' = (video_id :> row) @@ videos
                /\ last' = Event("init", 200, video_id, 0)
                /\ UNCHANGED <<storage, put, run, tmpVideo, hlsDir, disturbances>>

----------------------------------------------------------------------------
(* POST /upload/chunk *)

\* lines 202-221: up to `await chunk.read()`, where the handler is suspended while
\* the spooled upload is read
upload_chunk_begin(session_id, chunk_index, data) ==
    /\ IF ~IsInt(chunk_index)
       THEN /\ last' = Event("chunk", 400, "", 0)
            /\ Disturb(1)
            /\ UNCHANGED <<videos, storage, put, run, tmpVideo, hlsDir>>
       ELSE LET result == FindBySession(videos, session_id) IN
            IF result = {}
            THEN /\ last' = LookedUp(Event("chunk", 404, "", 0), session_id)
                 /\ Disturb(1)
                 /\ UNCHANGED <<videos, storage, put, run, tmpVideo, hlsDir>>
            ELSE LET video_id == CHOOSE v \in result : TRUE
                     video == videos[video_id]
                     frame == [vid |-> video_id,
                               org |-> video.organization_id,
                               metadata |-> video.metadata,
                               idx |-> ToInt(chunk_index), data |-> data]
                 IN  /\ Len(DictGet(video.metadata, "uploaded_chunks", <<>>)) < MaxUploaded
                     /\ Disturb(OutOfTurn(video_id))
                     /\ put' = put (+) SetToBag({frame})
                     /\ last' = LookedUp(Event("chunk", 0, video_id, ToInt(chunk_index)),
                                          session_id)
                     /\ UNCHANGED <<videos, storage, run, tmpVideo, hlsDir>>

\* upload_chunk with the metadata written back before the blob upload is known to
\* have succeeded
upload_chunk_finish_early_mark(q, blob_ok) ==
    /\ BagIn(q, put)
    /\ LET uploaded_chunks == Append(DictGet(q.metadata, "uploaded_chunks", <<>>), q.idx)
           metadata == DictUpdate(q.metadata, [uploaded_chunks |-> uploaded_chunks])
       IN  /\ videos' = TableUpdate(videos, q.vid, [metadata |-> metadata])
           /\ IF ~blob_ok
              THEN /\ last' = Event("chunk", 500, q.vid, q.idx)
                   /\ UNCHANGED storage
              ELSE /\ storage' = (ChunkPath(q.org, q.vid, q.idx) :> q.data) @@ storage
                   /\ last' = Event("chunk", 200, q.vid, q.idx)
    /\ Disturb(Fault(~blob_ok))
    /\ put' = put (-) SetToBag({q})
    /\ UNCHANGED <<run, tmpVideo, hlsDir>>

\* lines 221-236: the blob upload, then the write-back of the metadata read at line 208
upload_chunk_finish(q, blob_ok) ==
    /\ BagIn(q, put)
    /\ LET uploaded_chunks == Append(DictGet(q.metadata, "uploaded_chunks", <<>>), q.idx)
           metadata == DictUpdate(q.metadata, [uploaded_chunks |-> uploaded_chunks])
       IN  IF ~blob_ok
           THEN /\ last' = Event("chunk", 500, q.vid, q.idx)
                /\ UNCHANGED <<videos, storage>>
           ELSE /\ storage' = (ChunkPath(q.org, q.vid, q.idx) :> q.data) @@ storage
                /\ videos' = TableUpdate(videos, q.vid, [metadata |-> metadata])
                /\ last' = Event("chunk", 200, q.vid, q.idx)
    /\ Disturb(Fault(~blob_ok))
    /\ put' = put (-) SetToBag({q})
    /\ UNCHANGED <<run, tmpVideo, hlsDir>>

----------------------------------------------------------------------------
(* POST /upload/complete *)

\* the chunk blobs concatenated from the highest index down (a reversed loop)
RECURSIVE AssembleDescending(_, _, _, _, _)
AssembleDescending(store, org, vid, lo, hi) ==
    IF lo >= hi THEN <<>>
    ELSE store[ChunkPath(org, vid, hi - 1)] \o AssembleDescending(store, org, vid, lo, hi - 1)

\* the chunk blobs lo..hi-1, concatenated in index order (lines 279-284)
RECURSIVE Assemble(_, _, _, _, _)
Assemble(store, org, vid, lo, hi) ==
    IF lo >= hi THEN <<>>
    ELSE store[ChunkPath(org, vid, lo)] \o Assemble(store, org, vid, lo + 1, hi)

\* supabase.storage.from_('videos').remove([chunk_path]) for every chunk but `keep`
RemoveChunks(store, org, vid, total, keep) ==
    LET gone == {ChunkPath(org, vid, i) : i \in (0..(total - 1)) \ {keep}}
    IN  [path \in (DOMAIN store) \ gone |-> store[path]]

NoFault == 0 - 1

\* the storage decision with the limit itself counted as large
KeepChunkedAtLimit(file_size) == file_size >= SizeLimit

\* line 291: a file larger than 50MB stays chunked
KeepChunked(file_size) == file_size > SizeLimit

\* the metadata of a large file without a note of how it is stored
ChunkedMetadataUntyped(metadata, file_size, total_chunks) ==
    DictUpdate(metadata, [assembly_complete |-> TRUE, file_size |-> file_size,
                          total_chunks |-> total_chunks])

\* lines 295-300: the metadata of a file that stays chunked
ChunkedMetadata(metadata, file_size, total_chunks) ==
    DictUpdate(metadata, [assembly_complete |-> TRUE, file_size |-> file_size,
                          storage_type |-> "chunked", total_chunks |-> total_chunks])

\* an except branch that answers 500 and leaves the status as it is
MarkFailedSkipped(tbl, vid) == tbl

\* the except branch of complete_upload (lines 353-356)
MarkFailed(tbl, vid) == TableUpdate(tbl, vid, [status |-> "failed"])

\* lines 305-310 raising: the removal loop (314-319) is not reached, the store is as it was
UploadRaised(store, org, vid, total) == store

\* lines 246-323: from the session lookup to `await processor.get_video_metadata`.
\* fail_at: the chunk index whose download raises (-1: none does);
\* rm_fail: the chunk index whose removal raises (-1: none does).
complete_upload_start(session_id, fail_at, upload_ok, rm_fail) ==
    /\ LET result == FindBySession(videos, session_id) IN
       IF result = {}
       THEN /\ last' = Event("complete", 404, "", 0)
            /\ fail_at = NoFault /\ upload_ok /\ rm_fail = NoFault
            /\ Disturb(1)
            /\ UNCHANGED <<videos, storage, put, run, tmpVideo, hlsDir>>
       ELSE
       LET video_id == CHOOSE v \in result : TRUE
           video == videos[video_id]
           org_id == video.organization_id
           metadata == video.metadata
           total_chunks == DictGet(metadata, "total_chunks", 0)
           uploaded_chunks == DictGet(metadata, "uploaded_chunks", <<>>)
           Stored(i) == ChunkPath(org_id, video_id, i) \in DOMAIN storage
           Readable(i) == Stored(i) /\ i # fail_at
           bad == {i \in 0..(total_chunks - 1) : ~Readable(i)}
           stop == IF bad = {} THEN total_chunks
                   ELSE CHOOSE i \in bad : \A j \in bad : i <= j
           assembled == Assemble(storage, org_id, video_id, 0, stop)
           file_size == ByteSize(assembled)
           chunked == ChunkedMetadata(metadata, file_size, total_chunks)
           single == DictUpdate(metadata, [storage_type |-> "single"])
           Frame(m) == [pc |-> "probe", route |-> "complete", vid |-> video_id, org |-> org_id,
                        metadata |-> m, size |-> file_size, k |-> 0, playlists |-> <<>>,
                        data |-> <<>>]
       IN
       IF Len(uploaded_chunks) # total_chunks
       THEN /\ last' = Event("complete", 400, video_id, 0)
            /\ fail_at = NoFault /\ upload_ok /\ rm_fail = NoFault
            /\ Disturb(1)
            /\ UNCHANGED <<videos, storage, put, run, tmpVideo, hlsDir>>
       ELSE
       /\ fail_at # NoFault => fail_at < total_chunks /\ Stored(fail_at) /\ stop = fail_at
       /\ tmpVideo' = (video_id :> assembled) @@ tmpVideo
       /\ IF stop < total_chunks
          THEN \* a chunk download raised
               /\ upload_ok /\ rm_fail = NoFault
               /\ Disturb(OutOfTurn(video_id) + Fault(fail_at # NoFault))
               /\ videos' = MarkFailed(videos, video_id)
               /\ last' = Logged(Event("complete", 500, video_id, 0), AssembleError("download"))
               /\ UNCHANGED <<storage, run>>
          ELSE IF KeepChunked(file_size)
          THEN /\ upload_ok /\ rm_fail = NoFault
               /\ Disturb(OutOfTurn(video_id))
               /\ run' = run (+) SetToBag({Frame(chunked)})
               /\ last' = Event("complete", 0, video_id, 0)
               /\ UNCHANGED <<videos, storage>>
          ELSE IF ~upload_ok
          THEN \* the upload of the consolidated blob raised
               /\ rm_fail = NoFault
               /\ Disturb(OutOfTurn(video_id) + 1)
               /\ videos' = MarkFailed(videos, video_id)
               /\ storage' = UploadRaised(storage, org_id, video_id, total_chunks)
               /\ last' = Logged(Event("complete", 500, video_id, 0), AssembleError("upload"))
               /\ UNCHANGED run
          ELSE /\ rm_fail # NoFault => rm_fail < total_chunks
               /\ Disturb(OutOfTurn(video_id) + Fault(rm_fail # NoFault))
               /\ storage' = RemoveChunks((OriginalPath(org_id, video_id) :> assembled) @@ storage,
                                          org_id, video_id, total_chunks, rm_fail)
               /\ run' = run (+) SetToBag({Frame(single)})
               /\ last' = Event("complete", 0, video_id, 0)
               /\ UNCHANGED videos
       /\ UNCHANGED <<put, hlsDir>>

\* what ffprobe reports for a readable file (video_processor.py lines 120-127)
ProbeResult(data) ==
    [duration |-> 60, fps |-> 25, resolution |-> "1920x1080", codec |-> "h264",
     bitrate |-> 4000000, size |-> ByteSize(data)]

\* a fallback that reports the frame rate of an unreadable file as 0
FallbackMetadataZeroFps(file_size) ==
    [duration |-> 0, fps |-> 0, resolution |-> "unknown", codec |-> "unknown",
     bitrate |-> 0, size |-> file_size]

\* the fallback of complete_upload (lines 328-335)
FallbackMetadata(file_size) ==
    [duration |-> 0, fps |-> 30, resolution |-> "unknown", codec |-> "unknown",
     bitrate |-> 0, size |-> file_size]

\* a pipeline that starts the transcode and leaves the status write for later
MarkProcessingDeferred(tbl, vid, metadata) == tbl

\* lines 337-340: the status write between the probe and the transcode
MarkProcessing(tbl, vid, metadata) ==
    TableUpdate(tbl, vid, [status |-> "processing", metadata |-> metadata])

\* lines 323-351: the probe returns, status 'processing' is written, and either the
\* transcode starts (up to the first `await` of convert_to_hls) or, for a chunked
\* video, the final status is written.
complete_upload_probe(f, probe_ok, db_ok, db_ok2) ==
    /\ BagIn(f, run)
    /\ f.pc = "probe"
    /\ ~probe_ok => f.vid \in DOMAIN tmpVideo
    /\ LET probed == probe_ok /\ f.vid \in DOMAIN tmpVideo
           metadata == IF probed THEN DictUpdate(f.metadata, ProbeResult(tmpVideo[f.vid]))
                       ELSE DictUpdate(f.metadata, FallbackMetadata(f.size))
           warned == IF probed THEN {} ELSE {ProbeWarning}
           processing == MarkProcessing(videos, f.vid, metadata)
           rest == run (-) SetToBag({f})
       IN
       IF ~db_ok
       THEN /\ db_ok2
            /\ Disturb(Fault(~probe_ok) + 1)
            /\ videos' = MarkFailed(videos, f.vid)
            /\ run' = rest
            /\ last' = Logged(Event("probe", 500, f.vid, 0), warned \cup AssembleError("update"))
            /\ UNCHANGED hlsDir
       ELSE IF DictGet(metadata, "storage_type", "None") = "single"
       THEN /\ db_ok2
            /\ Disturb(Fault(~probe_ok))
            /\ videos' = processing
            /\ hlsDir' = IF f.vid \in DOMAIN hlsDir THEN hlsDir ELSE (f.vid :> {}) @@ hlsDir
            /\ run' = rest (+) SetToBag({[f EXCEPT !.pc = "hls", !.k = 1, !.metadata = metadata]})
            /\ last' = Logged(Event("probe", 0, f.vid, 0), warned)
       ELSE IF db_ok2
       THEN /\ Disturb(Fault(~probe_ok))
            /\ videos' = TableUpdate(processing, f.vid,
                                     [status |-> "processed", metadata |-> metadata])
            /\ run' = rest
            /\ last' = Logged(Event("probe", 200, f.vid, 0), warned)
            /\ UNCHANGED hlsDir
       ELSE /\ Disturb(Fault(~probe_ok) + 1)
            /\ videos' = MarkFailed(processing, f.vid)
            /\ run' = rest
            /\ last' = Logged(Event("probe", 500, f.vid, 0), warned \cup AssembleError("update"))
            /\ UNCHANGED hlsDir
    /\ UNCHANGED <<storage, put, tmpVideo>>

----------------------------------------------------------------------------
(* VideoProcessor.convert_to_hls *)

QualityPresets ==
    << [name |-> "1080p", resolution |-> "1920x1080", bitrate |-> "5000k",
        audio_bitrate |-> "128k", maxrate |-> "5350k", bufsize |-> "7500k"],
       [name |-> "720p", resolution |-> "1280x720", bitrate |-> "2500k",
        audio_bitrate |-> "128k", maxrate |-> "2675k", bufsize |-> "3750k"],
       [name |-> "480p", resolution |-> "854x480", bitrate |-> "1000k",
        audio_bitrate |-> "96k", maxrate |-> "1070k", bufsize |-> "1500k"] >>

\* int(s.rstrip('k'))
StripK(s) ==
    CASE s = "5000k" -> 5000 [] s = "2500k" -> 2500 [] s = "1000k" -> 1000
      [] s = "128k" -> 128 [] s = "96k" -> 96

\* the entry appended to `playlists` for a preset that was converted (lines 205-210)
PlaylistEntry(preset) ==
    [name |-> preset.name, resolution |-> preset.resolution,
     bandwidth |-> StripK(preset.bitrate) * 1000 + StripK(preset.audio_bitrate) * 1000]

\* the files ffmpeg leaves in the output directory for one preset (lines 187-188)
RenditionFiles(name) == {name \o ".m3u8", name \o "_000.ts"}

\* a master playlist that lists the streams from the last converted to the first
MasterContentReversed(playlists) ==
    [i \in 1..Len(playlists) |->
        [bandwidth |-> playlists[Len(playlists) + 1 - i].bandwidth,
         resolution |-> playlists[Len(playlists) + 1 - i].resolution,
         uri |-> playlists[Len(playlists) + 1 - i].name \o ".m3u8"]]

\* master_content (lines 214-218): one stream entry per playlist, in order
MasterContent(playlists) ==
    [i \in 1..Len(playlists) |->
        [bandwidth |-> playlists[i].bandwidth, resolution |-> playlists[i].resolution,
         uri |-> playlists[i].name \o ".m3u8"]]

\* an order in which upload_hls_files meets the files of the output directory:
\* the order in which they were created
HlsListing ==
    <<"1080p.m3u8", "1080p_000.ts", "720p.m3u8", "720p_000.ts",
      "480p.m3u8", "480p_000.ts", "master.m3u8">>

\* hls_dir.rglob('*') (line 251) yields the entries in the order of the file
\* system, which is not the same on every one: oldest first or newest first
HlsListings ==
    {HlsListing, [i \in 1..Len(HlsListing) |-> HlsListing[Len(HlsListing) + 1 - i]]}

\* the content of a file of the output directory
HlsContent(name, master) == IF name = "master.m3u8" THEN master ELSE <<name>>

\* an upload that sends the playlists of the directory and leaves the segments behind
UploadHlsPlaylistsOnly(store, org, vid, files, master, listing, stop_at) ==
    LET lists == {"1080p.m3u8", "720p.m3u8", "480p.m3u8", "master.m3u8"}
        sent == {listing[j] : j \in {j \in 1..Len(listing) :
                                          listing[j] \in files \cap lists /\ j < stop_at}}
    IN  [path \in {HlsPath(org, vid, name) : name \in sent} |->
            HlsContent(path[5], master)] @@ store

\* upload_hls_files (lines 246-269): every file of the directory is uploaded, in
\* listing order, until the upload of the file at position stop_at raises
UploadHls(store, org, vid, files, master, listing, stop_at) ==
    LET sent == {listing[j] : j \in {j \in 1..Len(listing) :
                                          listing[j] \in files /\ j < stop_at}}
    IN  [path \in {HlsPath(org, vid, name) : name \in sent} |->
            HlsContent(path[5], master)] @@ store

\* update_video_status (lines 280-302): an error of the table update is logged, not raised
update_video_status(tbl, vid, status, metadata, db_ok) ==
    IF db_ok THEN TableUpdate(tbl, vid, [status |-> status, metadata |-> metadata]) ELSE tbl

\* a cleanup that leaves the directory where it is
RemoveDirKept(dirs, vid) == dirs

\* the finally block of convert_to_hls (lines 236-244)
RemoveDir(dirs, vid) == [v \in (DOMAIN dirs) \ {vid} |-> dirs[v]]

\* the except branch of upload_video (lines 99-102)
MarkError(tbl, vid) == TableUpdate(tbl, vid, [status |-> "error"])

\* One preset of convert_to_hls returns from ffmpeg (lines 198-210); after the last
\* preset the rest of convert_to_hls and of the route that called it runs without
\* suspending (lines 212-244, then videos.py 353-362 or 92-102).
\* listing: the order in which rglob yields the files of the output directory;
\* stop_at: position in the listing of the file whose upload raises (0: none does);
\* rm_ok: the two rmtree calls of the finally block succeed.
convert_to_hls_step(f, ffmpeg_ok, listing, stop_at, db_ok, rm_ok) ==
    /\ BagIn(f, run)
    /\ f.pc = "hls"
    /\ LET preset == QualityPresets[f.k]
           converted == ffmpeg_ok /\ f.vid \in DOMAIN tmpVideo /\ f.vid \in DOMAIN hlsDir
           playlists == IF converted THEN Append(f.playlists, PlaylistEntry(preset))
                        ELSE f.playlists
           output_dir == IF converted
                         THEN [hlsDir EXCEPT ![f.vid] = @ \cup RenditionFiles(preset.name)]
                         ELSE hlsDir
           rest == run (-) SetToBag({f})
           mastered == playlists # <<>> /\ f.vid \in DOMAIN output_dir
           files == IF mastered THEN output_dir[f.vid] \cup {"master.m3u8"} ELSE {}
           positions == {j \in 1..Len(listing) : listing[j] \in files}
           uploaded == mastered /\ stop_at \notin positions
           raised == ~uploaded \/ ~rm_ok
           cleaned == IF rm_ok THEN RemoveDir(output_dir, f.vid)
                      ELSE IF mastered THEN [output_dir EXCEPT ![f.vid] = files]
                      ELSE output_dir
           written == IF uploaded
                      THEN update_video_status(videos, f.vid, "processed",
                               [hls_manifest |-> HlsManifestUrl(f.org, f.vid)], db_ok)
                      ELSE videos
           op == IF f.route = "upload" THEN "upload_hls" ELSE "transcode"
           ffmpeg_log == IF converted THEN {} ELSE {FfmpegError(preset.name)}
           status_log == IF uploaded /\ ~db_ok THEN {StatusUpdateError} ELSE {}
           cause == IF ~rm_ok THEN "rmtree"
                    ELSE IF playlists = <<>> THEN NoStreams
                    ELSE IF ~mastered THEN "open"
                    ELSE "upload"
           raise_log == IF ~raised THEN {}
                        ELSE IF f.route = "upload" THEN ProcessUploadError(cause)
                        ELSE AssembleError(cause)
       IN
       IF f.k < Len(QualityPresets)
       THEN /\ stop_at = 0 /\ db_ok /\ rm_ok /\ listing = HlsListing
            /\ UNCHANGED disturbances
            /\ hlsDir' = output_dir
            /\ run' = rest (+) SetToBag({[f EXCEPT !.k = f.k + 1, !.playlists = playlists]})
            /\ last' = Logged(Event(op, 0, f.vid, Len(playlists)), ffmpeg_log)
            /\ UNCHANGED <<videos, storage, tmpVideo>>
       ELSE /\ stop_at # 0 => stop_at \in positions
            /\ stop_at = 0 => listing = HlsListing
            /\ ~db_ok => uploaded
            /\ ~rm_ok => f.vid \in DOMAIN output_dir \/ f.vid \in DOMAIN tmpVideo
            /\ Disturb(Fault(stop_at # 0) + Fault(~db_ok) + Fault(~rm_ok))
            /\ storage' = IF mastered
                          THEN UploadHls(storage, f.org, f.vid, files,
                                         MasterContent(playlists), listing,
                                         IF uploaded THEN Len(listing) + 1 ELSE stop_at)
                          ELSE storage
            /\ hlsDir' = cleaned
            /\ tmpVideo' = IF rm_ok THEN RemoveDir(tmpVideo, f.vid) ELSE tmpVideo
            /\ videos' = IF ~raised THEN written
                         ELSE IF f.route = "upload" THEN MarkError(written, f.vid)
                         ELSE MarkFailed(written, f.vid)
            /\ run' = rest
            /\ last' = Logged(Event(op, IF raised THEN 500 ELSE 200, f.vid, Len(playlists)),
                              ffmpeg_log \cup status_log \cup raise_log)
    /\ UNCHANGED put

\* The ffmpeg process of the preset at hand never exits: `await
\* process.communicate()` (line 198) has no timeout, so the coroutine stays
\* suspended there and no step of it follows.
ffmpeg_never_exits(f) ==
    /\ BagIn(f, run)
    /\ f.pc = "hls"
    /\ run' = (run (-) SetToBag({f})) (+) SetToBag({[f EXCEPT !.pc = "hung"]})
    /\ UNCHANGED <<videos, storage, put, tmpVideo, hlsDir, last, disturbances>>

----------------------------------------------------------------------------
(* POST /upload: upload_video and VideoProcessor.process_upload *)

VideoSuffixes == {".mp4", ".mov", ".avi", ".mkv"}
\* file_size > 5 * 1024 * 1024 * 1024 (line 72), computed without leaving 32 bits
GB == 1024 * 1024 * 1024
TooLarge(file_size) == file_size \div GB > 5 \/ (file_size \div GB = 5 /\ file_size % GB > 0)

\* the files a client posts: a name (stem and suffix) and the bytes, 1000 of them
UploadInputs ==
    { [filename |-> [stem |-> "a", suffix |-> ".mp4"], data |-> <<[tag |-> "f0", size |-> 1000]>>],
      [filename |-> [stem |-> "a", suffix |-> ".txt"], data |-> <<[tag |-> "f0", size |-> 1000]>>] }

\* videos.py lines 55-91 and video_processor.py lines 23-32: validation, the insert
\* of the row (no metadata column: it reads as an empty dict) and the creation of
\* /tmp/videos/{id}, up to the first `await` of process_upload.
\* uuid: the value uuid.uuid4() returns for the video id (line 76)
upload_video(file, org_id, uuid) ==
    IF file.filename.suffix \notin VideoSuffixes \/ TooLarge(ByteSize(file.data))
    THEN /\ last' = Event("upload", 400, "", 0)
         /\ Disturb(1)
         /\ UNCHANGED <<videos, storage, put, run, tmpVideo, hlsDir>>
    ELSE \E video_id \in {uuid} \ DOMAIN videos :
            LET video_data == [organization_id |-> org_id,
                               filename |-> file.filename,
                               file_size |-> ByteSize(file.data),
                               status |-> "uploaded",
                               metadata |-> <<>>]
                frame == [pc |-> "store", route |-> "upload", vid |-> video_id, org |-> org_id,
                          metadata |-> <<>>, size |-> ByteSize(file.data), k |-> 0,
                          playlists |-> <<>>, data |-> file.data]
            IN  /\ videos' = (video_id :> video_data) @@ videos
                /\ run' = run (+) SetToBag({frame})
                /\ last' = Event("upload", 0, video_id, 0)
                /\ UNCHANGED <<storage, put, tmpVideo, hlsDir, disturbances>>

\* video_processor.py lines 32-48: the temp file is written and uploaded to the
\* bucket, up to `await self.get_video_metadata`; an error goes through the except
\* branches of process_upload (74-79) and of upload_video (99-102)
process_upload_store(f, upload_ok) ==
    /\ BagIn(f, run)
    /\ f.pc = "store"
    /\ Disturb(Fault(~upload_ok))
    /\ IF upload_ok
       THEN /\ tmpVideo' = (f.vid :> f.data) @@ tmpVideo
            /\ storage' = (StreamPath(f.org, f.vid) :> f.data) @@ storage
            /\ run' = (run (-) SetToBag({f})) (+) SetToBag({[f EXCEPT !.pc = "ffprobe"]})
            /\ last' = Event("upload", 0, f.vid, 0)
            /\ UNCHANGED videos
       ELSE /\ tmpVideo' = RemoveDir(tmpVideo, f.vid)
            /\ videos' = MarkError(videos, f.vid)
            /\ run' = run (-) SetToBag({f})
            /\ last' = Logged(Event("upload", 500, f.vid, 0), ProcessUploadError("upload"))
            /\ UNCHANGED storage
    /\ UNCHANGED <<put, hlsDir>>

\* video_processor.py lines 48-66 and 134-135: ffprobe returns and, with no queue
\* configured, convert_to_hls starts, up to its first `await`; ffprobe failing raises
process_upload_probe(f, probe_ok) ==
    /\ BagIn(f, run)
    /\ f.pc = "ffprobe"
    /\ Disturb(Fault(~probe_ok))
    /\ IF probe_ok /\ f.vid \in DOMAIN tmpVideo
       THEN /\ hlsDir' = IF f.vid \in DOMAIN hlsDir THEN hlsDir ELSE (f.vid :> {}) @@ hlsDir
            /\ run' = (run (-) SetToBag({f}))
                      (+) SetToBag({[f EXCEPT !.pc = "hls", !.k = 1,
                                              !.metadata = ProbeResult(tmpVideo[f.vid])]})
            /\ last' = Event("upload", 0, f.vid, 0)
            /\ UNCHANGED <<videos, tmpVideo>>
       ELSE /\ tmpVideo' = RemoveDir(tmpVideo, f.vid)
            /\ videos' = MarkError(videos, f.vid)
            /\ run' = run (-) SetToBag({f})
            /\ last' = Logged(Event("upload", 500, f.vid, 0), ProcessUploadError("ffprobe"))
            /\ UNCHANGED hlsDir
    /\ UNCHANGED <<storage, put>>

----------------------------------------------------------------------------
(* VideoProcessor.get_video_metadata: the frame rate *)

\* An r_frame_rate string is a sequence of atoms: "/" and the runs of characters
\* between slashes.  float() converts the first three runs and raises ValueError
\* for the others.
FpsRuns == {"30000", "1001", "0", "abc"}
FloatTable == [t \in {"30000", "1001", "0"} |-> CASE t = "30000" -> 30000 [] t = "1001" -> 1001 [] t = "0" -> 0]
FpsInputs ==
    {t \in UNION {[1..n -> FpsRuns \cup {"/"}] : n \in 0..MaxFpsAtoms} :
        \A i \in 1..(Len(t) - 1) : t[i] = "/" \/ t[i + 1] = "/"}

\* str.split('/')
RECURSIVE SplitFrom(_, _)
SplitFrom(t, part) ==
    IF t = <<>> THEN <<part>>
    ELSE IF Head(t) = "/" THEN <<part>> \o SplitFrom(Tail(t), "")
    ELSE SplitFrom(Tail(t), part \o Head(t))
Split(t) == SplitFrom(t, "")

\* a / b for floats, and the value both 0 and 0.0 stand for
Quotient(a, b) == IF a = 0 THEN [num |-> 0, den |-> 1] ELSE [num |-> a, den |-> b]
Zero == [num |-> 0, den |-> 1]

\* a parser that looks at the first two parts and ignores the others
ParseFpsFirstTwo(fps_str) ==
    LET fps_parts == Split(fps_str) IN
    IF Len(fps_parts) >= 2
    THEN IF fps_parts[1] \notin DOMAIN FloatTable \/ fps_parts[2] \notin DOMAIN FloatTable THEN Zero
         ELSE IF FloatTable[fps_parts[2]] = 0 THEN Zero
         ELSE Quotient(FloatTable[fps_parts[1]], FloatTable[fps_parts[2]])
    ELSE Zero

\* video_processor.py lines 113-118: ValueError of float() and ZeroDivisionError
\* end in the bare except
ParseFps(fps_str) ==
    LET fps_parts == Split(fps_str) IN
    IF Len(fps_parts) = 2
    THEN IF fps_parts[1] \notin DOMAIN FloatTable \/ fps_parts[2] \notin DOMAIN FloatTable THEN Zero
         ELSE IF FloatTable[fps_parts[2]] = 0 THEN Zero
         ELSE Quotient(FloatTable[fps_parts[1]], FloatTable[fps_parts[2]])
    ELSE Zero

\* ffprobe has reported some r_frame_rate
FpsInit ==
    /\ videos = <<>> /\ storage = <<>> /\ put = EmptyBag /\ run = EmptyBag
    /\ tmpVideo = <<>> /\ hlsDir = <<>> /\ disturbances = 0
    /\ \E fps_str \in FpsInputs :
          last = Answered(Event("ffprobe", 0, "", 0), [r_frame_rate |-> fps_str])

\* lines 112-118
parse_frame_rate ==
    /\ last.op = "ffprobe"
    /\ last' = Answered(Event("fps", 0, "", 0),
                        [r_frame_rate |-> last.out.r_frame_rate,
                         fps |-> ParseFps(last.out.r_frame_rate)])
    /\ UNCHANGED <<videos, storage, put, run, tmpVideo, hlsDir, disturbances>>

FpsSpec == FpsInit /\ [][parse_frame_rate]_vars

----------------------------------------------------------------------------
(* GET /{video_id}/stream and GET /{video_id}/hls/{filename}: StreamingService *)

\* the Range header of a request ("None": the request has none)
RangeInputs == {"None", "bytes=100-199"}
\* the first and last byte position a Range header value names
RangeTable == [h \in {"bytes=100-199"} |-> [first |-> 100, last |-> 199]]

\* a response body: all bytes of a blob, its bytes first..last, or no bytes at all
Whole(data) == [of |-> data, part |-> "all", first |-> 0, last |-> 0 - 1]
Slice(data, from, upto) == [of |-> data, part |-> "range", first |-> from, last |-> upto]
NoBody == [of |-> <<>>, part |-> "none", first |-> 0, last |-> 0 - 1]

\* what the bucket answers to GET of the public URL of `path` with request
\* `headers`: 404 for no such blob, 206 with the bytes asked for when a Range
\* header names bytes of the blob, 416 when it names none, else 200 with all
StorageGet(store, path, headers) ==
    IF path \notin DOMAIN store
    THEN [status |-> 404, body |-> NoBody]
    ELSE IF "Range" \in DOMAIN headers
         THEN LET size == ByteSize(store[path])
                  r == RangeTable[headers["Range"]]
                  stop == IF r.last < size THEN r.last ELSE size - 1
              IN  IF r.first >= size
                  THEN [status |-> 416, body |-> NoBody]
                  ELSE [status |-> 206, body |-> Slice(store[path], r.first, stop)]
         ELSE [status |-> 200, body |-> Whole(store[path])]

\* stream_video_segment (streaming.py lines 26-58): the response is created with the
\* default status of StreamingResponse; generate() runs when the body is sent, and
\* raise_for_status() in it ends the body without changing the status line
stream_video_segment(store, video_id, org_id, range_header) ==
    LET video_url == StreamPath(org_id, video_id)
        headers == IF range_header # "None" THEN ("Range" :> range_header) ELSE <<>>
        response == StorageGet(store, video_url, headers)
        response_headers == ("Accept-Ranges" :> "bytes") @@ ("Cache-Control" :> "no-cache")
    IN  [status_code |-> 200, media_type |-> "video/mp4", headers |-> response_headers,
         url |-> video_url, sent |-> headers, upstream |-> response.status,
         body |-> IF response.status >= 400 THEN NoBody ELSE response.body]

\* the request as the endpoints record it next to the response
Request(org_id, name, range_header) == [org_id |-> org_id, name |-> name, range |-> range_header]

\* a status check that turns away only the videos whose pipeline failed
StreamableUnlessFailed(video) == video.status # "failed"

\* line 123: only a processed video is streamed
Streamable(video) == video.status = "processed"

\* stream_video (videos.py lines 105-129)
stream_video(video_id, org_id, range_header) ==
    /\ IF video_id \notin DOMAIN videos
       THEN last' = Answered(Event("stream", 404, "", 0),
                             [request |-> Request(org_id, video_id, range_header)])
       ELSE IF ~Streamable(videos[video_id])
       THEN last' = Answered(Event("stream", 400, video_id, 0),
                             [request |-> Request(org_id, video_id, range_header)])
       ELSE LET r == stream_video_segment(storage, video_id, org_id, range_header)
            IN  last' = Answered(Event("stream", r.status_code, video_id, 0),
                                 [request |-> Request(org_id, video_id, range_header)] @@ r)
    /\ UNCHANGED <<videos, storage, put, run, tmpVideo, hlsDir, disturbances>>

\* the file names a player asks for, and filename.endswith for each of them
HlsFileInputs == {"master.m3u8", "1080p.m3u8", "1080p_000.ts", "480p_000.ts", "poster.jpg"}
EndsWith(filename, suffix) ==
    CASE suffix = ".m3u8" -> filename \in {"master.m3u8", "1080p.m3u8", "720p.m3u8", "480p.m3u8"}
      [] suffix = ".ts" -> filename \in {"1080p_000.ts", "720p_000.ts", "480p_000.ts"}

\* a content type that treats playlists like segments
HlsContentTypeSegment(filename) ==
    IF EndsWith(filename, ".m3u8") \/ EndsWith(filename, ".ts") THEN "video/MP2T"
    ELSE "application/octet-stream"

\* streaming.py lines 72-80
HlsContentType(filename) ==
    IF EndsWith(filename, ".m3u8") THEN "application/x-mpegURL"
    ELSE IF EndsWith(filename, ".ts") THEN "video/MP2T"
    ELSE "application/octet-stream"
HlsCacheControl(filename) ==
    IF EndsWith(filename, ".m3u8") THEN "no-cache" ELSE "max-age=3600"

\* what can go wrong between the service and the bucket: nothing, an error status
\* of the bucket, or no answer within the timeout of the client
UpstreamFaults == {"none", "503", "timeout"}

\* get_hls_manifest (streaming.py lines 67-118)
get_hls_manifest(store, video_id, org_id, filename, fault) ==
    LET file_path == HlsPath(org_id, video_id, filename)
        response == IF fault = "503" THEN [status |-> 503, body |-> NoBody]
                    ELSE StorageGet(store, file_path, <<>>)
    IN  IF fault = "timeout"
        THEN [status_code |-> 500, url |-> file_path, upstream |-> 0]
        ELSE IF response.status = 404
        THEN [status_code |-> 404, url |-> file_path, upstream |-> 404]
        ELSE IF response.status >= 400
        THEN [status_code |-> 500, url |-> file_path, upstream |-> response.status]
        ELSE [status_code |-> 200, url |-> file_path, upstream |-> response.status,
              content |-> response.body,
              media_type |-> HlsContentType(filename),
              headers |-> ("Cache-Control" :> HlsCacheControl(filename))
                          @@ ("Content-Type" :> HlsContentType(filename))]

\* get_hls_file (videos.py lines 132-142)
get_hls_file(video_id, org_id, filename, fault) ==
    /\ LET r == get_hls_manifest(storage, video_id, org_id, filename, fault)
       IN  last' = Answered(Event("hls", r.status_code, video_id, 0),
                            [request |-> Request(org_id, filename, "None")] @@ r)
    /\ UNCHANGED <<videos, storage, put, run, tmpVideo, hlsDir, disturbances>>

----------------------------------------------------------------------------

\* the outcomes the environment can still choose for a call that may raise
MayFail == disturbances < MaxDisturbances
Outcomes == IF MayFail THEN BOOLEAN ELSE {TRUE}
FaultIndexes ==
    IF MayFail THEN {NoFault} \cup {ToInt(s) : s \in {s \in ChunkIndexInputs : IsInt(s)}}
    ELSE {NoFault}
FaultPositions == IF MayFail THEN {0, 1, Len(HlsListing)} ELSE {0}

Next ==
    \/ \E in \in InitInputs, org \in Orgs, uuid \in VideoIds :
          init_chunked_upload(in[1], in[2], org, uuid)
    \/ \E sid \in SessionIds, ci \in ChunkIndexInputs, b \in Payloads :
          upload_chunk_begin(sid, ci, <<b>>)
    \/ \E q \in BagToSet(put), ok \in Outcomes : upload_chunk_finish(q, ok)
    \/ \E sid \in SessionIds, fail_at \in FaultIndexes, ok \in Outcomes, rm_fail \in FaultIndexes :
          complete_upload_start(sid, fail_at, ok, rm_fail)
    \/ \E f \in BagToSet(run), probe_ok \in Outcomes, db_ok \in Outcomes, db_ok2 \in Outcomes :
          complete_upload_probe(f, probe_ok, db_ok, db_ok2)
    \/ \E f \in BagToSet(run), ffmpeg_ok \in BOOLEAN, listing \in HlsListings,
          stop_at \in FaultPositions, db_ok \in Outcomes, rm_ok \in Outcomes :
          convert_to_hls_step(f, ffmpeg_ok, listing, stop_at, db_ok, rm_ok)
    \/ \E file \in UploadInputs, org \in Orgs, uuid \in VideoIds : upload_video(file, org, uuid)
    \/ \E f \in BagToSet(run), ok \in Outcomes : process_upload_store(f, ok)
    \/ \E f \in BagToSet(run), probe_ok \in Outcomes : process_upload_probe(f, probe_ok)

Spec == Init /\ [][Next]_vars

\* The read endpoints change nothing; they are explored against an ingestion
\* without disturbances, any number of them at any point of it.
ReadOrgs == Orgs \cup {"default"}
ReadNext ==
    \/ Next /\ disturbances' = 0
    \/ \E v \in VideoIds, org \in ReadOrgs, range \in RangeInputs : stream_video(v, org, range)
    \/ \E v \in VideoIds, org \in ReadOrgs, filename \in HlsFileInputs, fault \in UpstreamFaults :
          get_hls_file(v, org, filename, fault)

ReadSpec == Init /\ [][ReadNext]_vars

\* A second video, ingested by a direct upload next to the first one, again
\* without disturbances.
SecondIds == {"v2"}
PoolNext ==
    \/ Next /\ disturbances' = 0
    \/ \E file \in UploadInputs, org \in Orgs, uuid \in SecondIds :
          upload_video(file, org, uuid) /\ disturbances' = 0

PoolSpec == Init /\ [][PoolNext]_vars

\* An ingestion without disturbances in which an ffmpeg process may never exit.
\* The event loop resumes a handler when the call it awaits has returned, and
\* every awaited call but ffmpeg returns: the steps that resume a handler are
\* taken when they stay possible.
Resume ==
    \/ \E q \in BagToSet(put) : upload_chunk_finish(q, TRUE)
    \/ \E f \in BagToSet(run) :
          \/ complete_upload_probe(f, TRUE, TRUE, TRUE)
          \/ \E ffmpeg_ok \in BOOLEAN : convert_to_hls_step(f, ffmpeg_ok, HlsListing, 0, TRUE, TRUE)
          \/ process_upload_store(f, TRUE)
          \/ process_upload_probe(f, TRUE)
LiveNext ==
    \/ Next /\ disturbances' = 0
    \/ \E f \in BagToSet(run) : ffmpeg_never_exits(f)

LiveSpec == Init /\ [][LiveNext]_vars /\ WF_vars(Resume)

----------------------------------------------------------------------------
(* The session state as the handlers read it *)

Range(seq) == {seq[i] : i \in 1..Len(seq)}

\* metadata.get('uploaded_chunks', []) and metadata.get('total_chunks', 0) of a row
UploadedChunks(tbl, v) == DictGet(tbl[v].metadata, "uploaded_chunks", <<>>)
TotalChunks(tbl, v) == DictGet(tbl[v].metadata, "total_chunks", 0)
Received(tbl, v) == Range(UploadedChunks(tbl, v))

\* some index of [0, total_chunks) has not been received
MissingIndex(tbl, v) == \E i \in 0..(TotalChunks(tbl, v) - 1) : i \notin Received(tbl, v)

\* the complete_upload requests in flight for video v
RunsOf(v) == {f \in BagToSet(run) : f.vid = v}

\* a complete_upload request for v has returned and none is in flight
PipelineEnded(v) ==
    /\ last.op \in {"complete", "probe", "transcode"}
    /\ last.code \in {200, 500}
    /\ last.vid = v
    /\ RunsOf(v) = {}

----------------------------------------------------------------------------
(* C1: once the pipeline started by complete() has ended, whatever step raised,
   the status of the video is not left at processing. *)
C1_EndedPipelineNotProcessing ==
    \A v \in DOMAIN videos : PipelineEnded(v) => videos[v].status # "processing"

(* C2: every index counts once: the received count the completeness test uses
   (the length of uploaded_chunks) is the number of distinct indexes received. *)
C2_IndexCountedOnce ==
    \A v \in DOMAIN videos : Len(UploadedChunks(videos, v)) = Cardinality(Received(videos, v))

(* C3: a complete() for a session that misses an index of [0, totalChunks) answers
   MissingChunks (400), starts no assembly and changes no record. *)
C3_IncompleteRejected ==
    [][ (last'.op = "complete" /\ last'.vid \in DOMAIN videos /\ MissingIndex(videos, last'.vid))
        => (last'.code = 400 /\ videos' = videos /\ run' = run /\ tmpVideo' = tmpVideo) ]_vars

(* C4: a putChunk that returns ok leaves every index received so far in the
   received set and adds its own: no update of a concurrent putChunk is lost. *)
C4_NoLostUpdate ==
    [][ (last'.op = "chunk" /\ last'.code = 200)
        => /\ last'.n \in Received(videos', last'.vid)
           /\ \A v \in DOMAIN videos : Received(videos, v) \subseteq Received(videos', v) ]_vars

(* C5: when complete() has assembled the chunks of a session, the assembled
   stream is chunk 0, chunk 1, ..., chunk N-1 as stored, whatever order the
   chunks arrived in. *)
C5_AssembledInIndexOrder ==
    [][ (last'.op = "complete" /\ last'.code = 0)
        => LET v == last'.vid
               n == TotalChunks(videos, v)
           IN  /\ v \in DOMAIN tmpVideo'
               /\ Len(tmpVideo'[v]) = n
               /\ \A i \in 0..(n - 1) :
                     <<tmpVideo'[v][i + 1]>> = storage[ChunkPath(videos[v].organization_id, v, i)] ]_vars

\* two different chunks arrived in the order 1, 0 and were assembled
C5_Witness ==
    /\ last.op = "complete" /\ last.code = 0
    /\ last.vid \in DOMAIN tmpVideo
    /\ UploadedChunks(videos, last.vid) = <<1, 0>>
    /\ Len(tmpVideo[last.vid]) = 2
    /\ tmpVideo[last.vid][1] # tmpVideo[last.vid][2]

(* C6: processed and failed are terminal: no step changes a status that is
   processed or failed. *)
C6_TerminalStatus ==
    [][ \A v \in DOMAIN videos :
          videos[v].status \in {"processed", "failed"} => videos'[v].status = videos[v].status ]_vars

(* C7: at most one assemble/transcode run is in progress per video. *)
C7_OneRunPerVideo ==
    \A f \in BagToSet(run) : RunsOf(f.vid) = {f} /\ CopiesIn(f, run) = 1

(* C8: the received indexes of a session lie in [0, totalChunks). *)
C8_ReceivedInRange ==
    \A v \in DOMAIN videos :
        \A i \in Received(videos, v) : 0 <= i /\ i < TotalChunks(videos, v)

(* C9: while a session is open (no complete() has started assembling it), every
   index in its received set has a stored chunk blob: an index is marked only
   after its blob write succeeded. *)
C9_ReceivedOnlyIfStored ==
    \A v \in DOMAIN videos :
        (videos[v].status = "uploaded" /\ RunsOf(v) = {})
        => \A i \in Received(videos, v) :
              ChunkPath(videos[v].organization_id, v, i) \in DOMAIN storage

\* a putChunk whose blob write raised: the index is not received and no blob is stored
C9_Witness ==
    /\ last.op = "chunk" /\ last.code = 500
    /\ last.vid \in DOMAIN videos
    /\ videos[last.vid].status = "uploaded" /\ RunsOf(last.vid) = {}
    /\ last.n \notin Received(videos, last.vid)
    /\ ChunkPath(videos[last.vid].organization_id, last.vid, last.n) \notin DOMAIN storage

(* C10: an init with size <= 0 or totalChunks <= 0 creates no record: a record
   that init has just created has a positive size and a positive chunk count. *)
C10_InvalidInitRejected ==
    (last.op = "init" /\ last.code = 200)
    => /\ videos[last.vid].file_size_bytes > 0
       /\ TotalChunks(videos, last.vid) > 0

----------------------------------------------------------------------------
(* The transcode call as the properties below observe it *)

\* the steps of convert_to_hls, on the chunked route and on the direct route
TranscodeOps == {"transcode", "upload_hls"}

\* the step e is the one in which convert_to_hls and the route around it ended
TranscodeEnded(e) == e.op \in TranscodeOps /\ e.code \in {200, 500}

\* the ladder of section 4.4 with bandwidth = videoBitrate + audioBitrate (bits/s)
Ladder ==
    << [name |-> "1080p", resolution |-> "1920x1080", bandwidth |-> 5128000],
       [name |-> "720p", resolution |-> "1280x720", bandwidth |-> 2628000],
       [name |-> "480p", resolution |-> "854x480", bandwidth |-> 1096000] >>

\* the master manifest that lists the renditions `done`, in that order
ManifestOf(done) ==
    [i \in 1..Len(done) |->
        [bandwidth |-> done[i].bandwidth, resolution |-> done[i].resolution,
         uri |-> done[i].name \o ".m3u8"]]

\* `done` after the attempt of rendition k, given the lines the step logged
AfterAttempt(done, k, log) ==
    IF FfmpegError(Ladder[k].name) \in log THEN done ELSE Append(done, Ladder[k])

\* path of an HLS file of video v, written out
HlsBlob(tbl, v, name) == <<"videos", tbl[v].organization_id, v, "hls", name>>

\* no blob of the HLS output of video v is stored
NoHlsStored(store, tbl, v) ==
    \A name \in Range(HlsListing) : HlsBlob(tbl, v, name) \notin DOMAIN store

(* C11: when all three renditions have failed, the transcode call raises (the
   request answers 500), stores no manifest and no segment, and the only change
   to the record is the status failed written by complete(): no manifest path
   is written. *)
C11_ZeroRenditionsFail ==
    [][ (TranscodeEnded(last') /\ last'.n = 0)
        => /\ last'.code = 500
           /\ storage' = storage
           /\ last'.op = "transcode"
              => /\ videos'[last'.vid].status = "failed"
                 /\ videos'[last'.vid].metadata = videos[last'.vid].metadata
                 /\ DOMAIN videos' = DOMAIN videos ]_vars

\* complete() ended with all three renditions failed
C11_Witness ==
    /\ last.op = "transcode" /\ last.code = 500 /\ last.n = 0
    /\ FfmpegError("480p") \in last.log
    /\ AssembleError(NoStreams) \subseteq last.log
    /\ videos[last.vid].status = "failed"
    /\ "hls_manifest" \notin DOMAIN videos[last.vid].metadata
    /\ NoHlsStored(storage, videos, last.vid)

(* C12: a failing rendition is skipped and the next one is attempted; when the
   call returns, the stored master manifest lists exactly the renditions that
   converted, in the order 1080p, 720p, 480p, each with bandwidth = video +
   audio bitrate and its resolution; and when at least one converted and no
   storage, table or cleanup call raised, the status becomes processed. *)
C12_MasterListsSurvivors ==
    [][ /\ (last'.op \in TranscodeOps /\ last'.code = 0)
           => \E f \in BagToSet(run), g \in BagToSet(run') :
                 /\ f.pc = "hls" /\ g.pc = "hls" /\ f.vid = last'.vid /\ g.vid = f.vid
                 /\ g.k = f.k + 1
                 /\ run' = (run (-) SetToBag({f})) (+) SetToBag({g})
                 /\ g.playlists = AfterAttempt(f.playlists, f.k, last'.log)
        /\ TranscodeEnded(last')
           => \E f \in BagToSet(run) :
                 /\ f.pc = "hls" /\ f.k = Len(Ladder) /\ f.vid = last'.vid
                 /\ run' = run (-) SetToBag({f})
                 /\ LET done == AfterAttempt(f.playlists, f.k, last'.log)
                        v == last'.vid
                    IN  /\ last'.code = 200
                           => /\ HlsBlob(videos, v, "master.m3u8") \in DOMAIN storage'
                              /\ storage'[HlsBlob(videos, v, "master.m3u8")] = ManifestOf(done)
                        /\ (done # <<>> /\ disturbances' = 0)
                           => /\ last'.code = 200
                              /\ videos'[v].status = "processed" ]_vars

\* 720p failed, 1080p and 480p converted: the manifest lists the two survivors
C12_Witness ==
    /\ last.op = "transcode" /\ last.code = 200
    /\ last.vid \in DOMAIN videos
    /\ videos[last.vid].status = "processed"
    /\ HlsBlob(videos, last.vid, "master.m3u8") \in DOMAIN storage
    /\ storage[HlsBlob(videos, last.vid, "master.m3u8")] = ManifestOf(<<Ladder[1], Ladder[3]>>)
    /\ HlsBlob(videos, last.vid, "720p.m3u8") \notin DOMAIN storage

\* the files the transcoder produces for the rendition a manifest entry names
ListedFiles(entry) ==
    UNION { IF entry.uri = Ladder[k].name \o ".m3u8"
            THEN {Ladder[k].name \o ".m3u8", Ladder[k].name \o "_000.ts"} ELSE {}
            : k \in 1..Len(Ladder) }

\* the record of v says processed and names a manifest
HasManifest(tbl, v) ==
    tbl[v].status = "processed" /\ "hls_manifest" \in DOMAIN tbl[v].metadata

(* C13: when the transcode call returns and its status write did not raise, the
   status is processed and the manifest path is set; and whenever a record says
   processed with a manifest path, the master manifest and the playlist and
   segments of every rendition it lists are in the blob store: the status is
   written after the uploads. *)
C13_ProcessedAfterUpload ==
    [][ /\ (TranscodeEnded(last') /\ last'.code = 200 /\ StatusUpdateError \notin last'.log)
           => /\ videos'[last'.vid].status = "processed"
              /\ "hls_manifest" \in DOMAIN videos'[last'.vid].metadata
              /\ videos'[last'.vid].metadata.hls_manifest
                   = HlsBlob(videos', last'.vid, "master.m3u8")
        /\ \A v \in DOMAIN videos' :
              HasManifest(videos', v)
              => /\ videos'[v].metadata.hls_manifest \in DOMAIN storage'
                 /\ LET master == storage'[videos'[v].metadata.hls_manifest]
                    IN  /\ Len(master) > 0
                        /\ \A i \in 1..Len(master) : \A name \in ListedFiles(master[i]) :
                              HlsBlob(videos', v, name) \in DOMAIN storage' ]_vars

\* all three renditions converted and were uploaded, then the status was written
C13_Witness ==
    /\ last.op = "transcode" /\ last.code = 200 /\ last.n = 3
    /\ HasManifest(videos, last.vid)
    /\ \A name \in Range(HlsListing) : HlsBlob(videos, last.vid, name) \in DOMAIN storage

\* the storage type section 4.2 gives a video of `size` bytes
StorageTypeFor(size) == IF size <= 52428800 THEN "single" ELSE "chunked"

(* C14: the storage strategy follows from the assembled size alone: complete()
   chooses single for a size up to and including 50MB and chunked above it, and
   the type the record gets with the probe result is the one of that size. *)
C14_StorageBySize ==
    [][ /\ (last'.op = "complete" /\ last'.code = 0)
           => \E f \in BagToSet(run') :
                 /\ f.pc = "probe" /\ f.vid = last'.vid
                 /\ run' = run (+) SetToBag({f})
                 /\ f.size = ByteSize(tmpVideo'[f.vid])
                 /\ DictGet(f.metadata, "storage_type", "None") = StorageTypeFor(f.size)
                 /\ f.metadata.storage_type = "single"
                    <=> (OriginalPath(f.org, f.vid) \in DOMAIN storage'
                         /\ storage'[OriginalPath(f.org, f.vid)] = tmpVideo'[f.vid])
        /\ (last'.op = "probe" /\ last'.code # 500)
           => \E f \in RunsOf(last'.vid) :
                 /\ f.pc = "probe"
                 /\ (run (-) SetToBag({f})) \sqsubseteq run'
                 /\ DictGet(videos'[f.vid].metadata, "storage_type", "None")
                      = StorageTypeFor(f.size) ]_vars

\* two chunks of 25MB each: exactly 50MB, stored as a single blob
C14_Witness ==
    /\ last.op = "complete" /\ last.code = 0
    /\ last.vid \in DOMAIN tmpVideo
    /\ ByteSize(tmpVideo[last.vid]) = 52428800
    /\ \E f \in RunsOf(last.vid) : f.pc = "probe" /\ f.metadata.storage_type = "single"
    /\ OriginalPath(videos[last.vid].organization_id, last.vid) \in DOMAIN storage

\* the fields of the record that the pipeline of complete() writes
PipelineKeys ==
    {"storage_type", "duration", "fps", "resolution", "codec", "bitrate", "size", "hls_manifest"}

(* C15: a putChunk request, whatever it interleaves with, leaves the status,
   the storage type, the probe metadata and the manifest path of every record
   as they are. *)
C15_PutChunkKeepsRecord ==
    [][ last'.op = "chunk"
        => \A v \in DOMAIN videos :
              /\ v \in DOMAIN videos'
              /\ videos'[v].status = videos[v].status
              /\ \A key \in PipelineKeys \cap DOMAIN videos[v].metadata :
                    /\ key \in DOMAIN videos'[v].metadata
                    /\ videos'[v].metadata[key] = videos[v].metadata[key] ]_vars

\* complete() has passed the completeness check of the session of video v
AssemblyStarted(v) == RunsOf(v) # {} \/ videos[v].status # "uploaded"

(* C16: once complete() has passed the completeness check of a session, no later
   putChunk or complete() finds the session: none is accepted, and none is
   answered with anything but SessionNotFound. *)
C16_SessionDiscarded ==
    [][ ( \/ (last'.op = "chunk" /\ last'.code = 0)
          \/ (last'.op = "complete" /\ last'.code \in {0, 400, 500}) )
        => ~AssemblyStarted(last'.vid) ]_vars

(* C17: when the probe fails, complete() goes on: the record gets the fallback
   metadata (duration 0, fps 30, resolution and codec unknown, bitrate 0, size
   the assembled size) with the status processing, and the transcode starts for
   a single video; the request is aborted in that step only when a table write
   raised. *)
C17_ProbeFailureNotFatal ==
    [][ (last'.op = "probe" /\ ProbeWarning \in last'.log)
        => LET v == last'.vid IN
           /\ last'.code = 500 => AssembleError("update") \subseteq last'.log
           /\ last'.code # 500
              => /\ videos'[v].metadata.duration = 0
                 /\ videos'[v].metadata.fps = 30
                 /\ videos'[v].metadata.resolution = "unknown"
                 /\ videos'[v].metadata.codec = "unknown"
                 /\ videos'[v].metadata.bitrate = 0
                 /\ videos'[v].metadata.size \in {f.size : f \in RunsOf(v)}
                 /\ videos'[v].metadata.storage_type = "single"
                    => /\ videos'[v].status = "processing"
                       /\ last'.code = 0
                       /\ \E g \in BagToSet(run') : g.vid = v /\ g.pc = "hls" /\ g.k = 1
                 /\ videos'[v].metadata.storage_type = "chunked"
                    => videos'[v].status = "processed" ]_vars

\* ffprobe failed on a single video: fallback metadata, status processing, transcode started
C17_Witness ==
    /\ last.op = "probe" /\ last.code = 0 /\ ProbeWarning \in last.log
    /\ videos[last.vid].status = "processing"
    /\ videos[last.vid].metadata.fps = 30
    /\ videos[last.vid].metadata.resolution = "unknown"
    /\ videos[last.vid].metadata.size = ByteSize(tmpVideo[last.vid])
    /\ \E g \in RunsOf(last.vid) : g.pc = "hls" /\ g.k = 1

(* C18: a cleanup error does not change the outcome: when complete() ends after
   the transcode with the master manifest and every file it lists stored and
   with no failed status write, the status is processed and the answer is 200,
   whether the removal of the temporary directories raised or not. *)
C18_CleanupErrorsSwallowed ==
    [][ ( /\ last'.op = "transcode" /\ last'.code \in {200, 500}
          /\ last'.n > 0
          /\ StatusUpdateError \notin last'.log
          /\ HlsBlob(videos, last'.vid, "master.m3u8") \in DOMAIN storage'
          /\ LET master == storage'[HlsBlob(videos, last'.vid, "master.m3u8")]
             IN  /\ Len(master) = last'.n
                 /\ \A i \in 1..Len(master) : \A name \in ListedFiles(master[i]) :
                       HlsBlob(videos, last'.vid, name) \in DOMAIN storage' )
        => /\ videos'[last'.vid].status = "processed"
           /\ last'.code = 200 ]_vars

\* the step e did not end with an error of rmtree itself
CleanupRan(e) ==
    (AssembleError("rmtree") \cup ProcessUploadError("rmtree")) \cap e.log = {}

(* C19: when the transcode call ends, on whichever path (a manifest returned,
   no rendition converted, an upload or the status write raised), the local HLS
   output directory and the local copy of the video are gone, provided the
   removal itself did not raise. *)
C19_TempOutputRemoved ==
    [][ (TranscodeEnded(last') /\ CleanupRan(last'))
        => /\ last'.vid \notin DOMAIN hlsDir'
           /\ last'.vid \notin DOMAIN tmpVideo' ]_vars

\* the upload of the master manifest raised after the renditions were uploaded:
\* the call failed and the local output is gone
C19_Witness ==
    /\ last.op = "transcode" /\ last.code = 500 /\ last.n > 0
    /\ AssembleError("upload") \subseteq last.log
    /\ HlsBlob(videos, last.vid, "1080p.m3u8") \in DOMAIN storage
    /\ HlsBlob(videos, last.vid, "master.m3u8") \notin DOMAIN storage
    /\ last.vid \notin DOMAIN hlsDir
    /\ last.vid \notin DOMAIN tmpVideo

(* C20: the status of every record is one of uploaded, processing, processed,
   failed, in every reachable state. *)
C20_StatusInEnum ==
    \A v \in DOMAIN videos :
        videos[v].status \in {"uploaded", "processing", "processed", "failed"}

----------------------------------------------------------------------------
\* some index of the session of v was uploaded more than once
Reuploaded(tbl, v) == Len(UploadedChunks(tbl, v)) > Cardinality(Received(tbl, v))

\* every index of [0, total_chunks) of v is received and has its chunk blob stored
AllChunksStored(tbl, store, v) ==
    /\ TotalChunks(tbl, v) > 0
    /\ \A i \in 0..(TotalChunks(tbl, v) - 1) :
          /\ i \in Received(tbl, v)
          /\ ChunkPath(tbl[v].organization_id, v, i) \in DOMAIN store

(* C21: after an index was uploaded again, a complete() for the session, which
   holds every index of [0, totalChunks) with its blob stored, assembles the
   stream, and the stream carries at every index the bytes stored last. *)
C21_ReuploadAssembled ==
    [][ ( /\ last'.op = "complete" /\ last'.code # 500
          /\ last'.vid \in DOMAIN videos
          /\ Reuploaded(videos, last'.vid)
          /\ AllChunksStored(videos, storage, last'.vid) )
        => /\ last'.code = 0
           /\ last'.vid \in DOMAIN tmpVideo'
           /\ \A i \in 0..(TotalChunks(videos, last'.vid) - 1) :
                 <<tmpVideo'[last'.vid][i + 1]>>
                    = storage[ChunkPath(videos[last'.vid].organization_id, last'.vid, i)] ]_vars

\* some row carries the session id sid
SessionKnown(tbl, sid) ==
    \E v \in DOMAIN tbl :
        "session_id" \in DOMAIN tbl[v].metadata /\ tbl[v].metadata.session_id = sid

(* C22: a putChunk with a well-formed index and a session id that no record
   carries answers SessionNotFound (404) and changes nothing: no blob, no
   record, no request in flight, no local file. *)
C22_UnknownSessionNoEffect ==
    [][ (last'.op = "chunk" /\ last'.code \in {0, 404} /\ ~SessionKnown(videos, last'.sid))
        => /\ last'.code = 404
           /\ videos' = videos /\ storage' = storage
           /\ put' = put /\ run' = run
           /\ tmpVideo' = tmpVideo /\ hlsDir' = hlsDir ]_vars

\* a session is open with a chunk stored, and a putChunk named a session id that
\* was never issued
C22_Witness ==
    /\ last.op = "chunk" /\ last.code = 404 /\ last.sid = "s0"
    /\ \E v \in DOMAIN videos :
          /\ SessionKnown(videos, SessionOf(v))
          /\ ChunkPath(videos[v].organization_id, v, 0) \in DOMAIN storage

----------------------------------------------------------------------------
(* The read endpoints *)

\* the step taken last answered a stream request that reached the bucket
Streamed == last.op = "stream" /\ last.code \notin {400, 404}

(* C23: a stream request with Range: bytes=100-199 for a stored resource of 1000
   bytes sends that header to the bucket unchanged and answers with status 206
   (partial content), exactly the bytes 100..199 and Accept-Ranges: bytes. *)
C23_PartialContent ==
    ( /\ Streamed
      /\ last.out.request.range = "bytes=100-199"
      /\ last.out.url \in DOMAIN storage
      /\ ByteSize(storage[last.out.url]) = 1000 )
    => /\ "Range" \in DOMAIN last.out.sent
       /\ last.out.sent["Range"] = "bytes=100-199"
       /\ last.code = 206
       /\ last.out.body = Slice(storage[last.out.url], 100, 199)
       /\ last.out.headers["Accept-Ranges"] = "bytes"

\* the blob a request for an HLS file of video v names, written out
HlsRequested(v, request) == <<"videos", request.org_id, v, "hls", request.name>>

(* C24: serveHlsFile answers 500 when the bucket answers an error status other
   than 404 or does not answer, 404 when the blob is missing, and otherwise 200
   with the bytes of the blob: a .m3u8 name with the manifest media type and
   no-cache, a .ts name with the segment media type and max-age=3600. *)
C24_HlsResponses ==
    last.op = "hls"
    => LET o == last.out
           path == HlsRequested(last.vid, o.request)
       IN  IF o.upstream \in {0, 503} THEN last.code = 500
           ELSE IF path \notin DOMAIN storage THEN last.code = 404
           ELSE /\ last.code = 200
                /\ o.content = Whole(storage[path])
                /\ o.headers["Content-Type"] = o.media_type
                /\ EndsWith(o.request.name, ".m3u8")
                   => /\ o.media_type = "application/x-mpegURL"
                      /\ o.headers["Cache-Control"] = "no-cache"
                /\ EndsWith(o.request.name, ".ts")
                   => /\ o.media_type = "video/MP2T"
                      /\ o.headers["Cache-Control"] = "max-age=3600"

\* the master manifest of a processed video was served
C24_Witness ==
    /\ last.op = "hls" /\ last.code = 200
    /\ last.out.request.name = "master.m3u8"
    /\ last.out.media_type = "application/x-mpegURL"
    /\ Len(last.out.content.of) = 3
    /\ last.vid \in DOMAIN videos /\ videos[last.vid].status = "processed"

----------------------------------------------------------------------------
(* Transcodes of several videos *)

\* a request is inside convert_to_hls for video v
Transcoding(v) == \E f \in BagToSet(run) : f.vid = v /\ f.pc = "hls"

(* C25: the transcodes of distinct videos are bounded by a worker pool; for the
   smallest pool, one worker: at no time are two videos being transcoded. *)
C25_TranscodesBounded ==
    Cardinality({v \in DOMAIN videos : Transcoding(v)}) <= 1

\* complete() is inside convert_to_hls for video v, its ffmpeg running or stuck
TranscodingChunked(v) ==
    \E f \in BagToSet(run) : f.vid = v /\ f.route = "complete" /\ f.pc \in {"hls", "hung"}

(* C26: a transcode that complete() has started ends, even when an ffmpeg
   process never exits by itself: the status of the video eventually becomes
   processed or failed. *)
C26_TranscodeEnds ==
    \A v \in VideoIds :
        TranscodingChunked(v)
        ~> (v \in DOMAIN videos /\ videos[v].status \in {"processed", "failed"})

----------------------------------------------------------------------------
(* C27: an init that answers 200 creates exactly one record, with the status
   uploaded, no index received and the storage path {org}/{videoId}/original.mp4;
   when complete() stores the consolidated blob of a single video, it stores the
   assembled bytes at that recorded path and at no other. *)
C27_RecordedStoragePath ==
    [][ /\ (last'.op = "init" /\ last'.code = 200)
           => LET v == last'.vid IN
              /\ v \notin DOMAIN videos
              /\ DOMAIN videos' = DOMAIN videos \cup {v}
              /\ \A w \in DOMAIN videos : videos'[w] = videos[w]
              /\ videos'[v].status = "uploaded"
              /\ Received(videos', v) = {}
              /\ videos'[v].storage_path = <<videos'[v].organization_id, v, "original.mp4">>
        /\ (last'.op = "complete" /\ last'.code = 0 /\ storage' # storage)
           => LET v == last'.vid IN
              /\ videos[v].storage_path \in DOMAIN storage'
              /\ storage'[videos[v].storage_path] = tmpVideo'[v]
              /\ (DOMAIN storage') \ (DOMAIN storage) \subseteq {videos[v].storage_path}
              /\ \E f \in BagToSet(run') :
                    f.vid = v /\ f.pc = "probe" /\ f.metadata.storage_type = "single" ]_vars

\* complete() has stored the two chunks of a single video as one blob at the path
\* that init recorded
C27_Witness ==
    /\ last.op = "complete" /\ last.code = 0
    /\ last.vid \in DOMAIN tmpVideo
    /\ Len(tmpVideo[last.vid]) = 2
    /\ videos[last.vid].storage_path \in DOMAIN storage
    /\ storage[videos[last.vid].storage_path] = tmpVideo[last.vid]

\* the record of v says the video is stored as chunks
RecordedChunked(tbl, v) ==
    /\ "storage_type" \in DOMAIN tbl[v].metadata
    /\ tbl[v].metadata.storage_type = "chunked"
    /\ "total_chunks" \in DOMAIN tbl[v].metadata

\* the chunk blobs 0..n-1 of v are stored and no consolidated blob is
ChunkSetKept(tbl, store, v, n) ==
    /\ \A i \in 0..(n - 1) : <<tbl[v].organization_id, v, "chunks", ChunkFileName(i)>> \in DOMAIN store
    /\ <<tbl[v].organization_id, v, "original.mp4">> \notin DOMAIN store

(* C28: when the assembled size is above 50MB, complete() deletes no chunk blob
   and uploads no consolidated blob; and when its pipeline has reached the final
   status, the record still says chunked and gives the chunk count, with the
   chunk set stored and no consolidated blob. *)
C28_ChunkSetKept ==
    [][ /\ (last'.op = "complete" /\ last'.code = 0
              /\ ByteSize(tmpVideo'[last'.vid]) > 52428800)
           => /\ storage' = storage
              /\ ChunkSetKept(videos, storage', last'.vid, TotalChunks(videos, last'.vid))
        /\ (last'.op = "probe" /\ last'.code = 200)
           => LET v == last'.vid IN
              /\ videos'[v].status = "processed"
              /\ RecordedChunked(videos', v)
              /\ videos'[v].metadata.total_chunks = TotalChunks(videos, v)
              /\ ChunkSetKept(videos', storage', v, TotalChunks(videos, v)) ]_vars

\* a video of two chunks, more than 50MB together, has reached processed
C28_Witness ==
    /\ last.op = "probe" /\ last.code = 200
    /\ videos[last.vid].status = "processed"
    /\ RecordedChunked(videos, last.vid)
    /\ videos[last.vid].metadata.total_chunks = 2
    /\ ChunkSetKept(videos, storage, last.vid, 2)

----------------------------------------------------------------------------
(* The frame rate *)

\* the string is "num/den" with two numbers and den # 0
WellFormedRate(t) ==
    /\ Len(t) = 3 /\ t[2] = "/"
    /\ t[1] \in {"30000", "1001", "0"} /\ t[3] \in {"30000", "1001"}

(* C29: the frame-rate parser returns num/den for a string "num/den" of two
   numbers with den # 0, and 0 for every other string: no slash, more than one
   slash, a part that is no number, a zero denominator. *)
C29_FrameRateParsed ==
    last.op = "fps"
    => LET t == last.out.r_frame_rate
           fps == last.out.fps
       IN  IF WellFormedRate(t)
           THEN /\ fps.den # 0
                /\ fps.num * FloatTable[t[3]] = FloatTable[t[1]] * fps.den
           ELSE fps.num = 0 /\ fps.den # 0

\* "30000/1001" was parsed
C29_Witness ==
    /\ last.op = "fps"
    /\ last.out.r_frame_rate = <<"30000", "/", "1001">>
    /\ last.out.fps = [num |-> 30000, den |-> 1001]

----------------------------------------------------------------------------
(* C30: for a processed video of the chunked protocol whose consolidated blob
   complete() stored at the recorded storage path, a stream request of its
   organization resolves that path and delivers the bytes of the blob. *)
C30_StreamReadsConsolidated ==
    ( /\ Streamed
      /\ "storage_path" \in DOMAIN videos[last.vid]
      /\ videos[last.vid].storage_path \in DOMAIN storage
      /\ last.out.request.org_id = videos[last.vid].organization_id )
    => /\ last.out.url = videos[last.vid].storage_path
       /\ last.out.upstream \in {200, 206}
       /\ last.out.body.of = storage[videos[last.vid].storage_path]

----------------------------------------------------------------------------
(* C31: every record whose status is processed names a manifest path, and the
   master manifest is stored at it, whether the video is stored single or
   chunked. *)
C31_ProcessedHasManifest ==
    \A v \in DOMAIN videos :
        videos[v].status = "processed"
        => /\ "hls_manifest" \in DOMAIN videos[v].metadata
           /\ videos[v].metadata.hls_manifest \in DOMAIN storage

\* the metadata the pipeline of complete() has written before the transcode ends
ProbedKeys == {"duration", "fps", "resolution", "codec", "bitrate", "storage_type"}

(* C32: when the pipeline of complete() succeeds for a single video, the final
   status write keeps what the pipeline wrote before: the record still holds the
   duration, fps, resolution, codec, bitrate and storage type it held, now
   together with the manifest path. *)
C32_FinalWriteKeepsMetadata ==
    [][ (last'.op = "transcode" /\ last'.code = 200 /\ StatusUpdateError \notin last'.log)
        => LET v == last'.vid IN
           /\ videos'[v].status = "processed"
           /\ "hls_manifest" \in DOMAIN videos'[v].metadata
           /\ \A key \in ProbedKeys \cap DOMAIN videos[v].metadata :
                 /\ key \in DOMAIN videos'[v].metadata
                 /\ videos'[v].metadata[key] = videos[v].metadata[key] ]_vars

\* the frames of the pipeline of complete() that a step has put in flight
StartedFrames == {f \in BagToSet(run') : f.route = "complete" /\ CopiesIn(f, run') > CopiesIn(f, run)}

\* what the probe, or its fallback, adds to the metadata
ProbeKeys == {"duration", "fps", "resolution", "codec", "bitrate", "size"}

(* C33: within one video the pipeline of complete() runs assemble, probe,
   transcode in this order: the probe starts only when the local copy holds all
   N chunks, the status becomes processing only in the step in which the probe
   has returned or fallen back, and a rendition is started only with the status
   at processing. *)
C33_PipelineOrder ==
    [][ /\ \A f \in StartedFrames :
            /\ f.pc = "probe"
               => /\ last'.op = "complete"
                  /\ \A i \in 0..(TotalChunks(videos, f.vid) - 1) :
                         ChunkPath(f.org, f.vid, i) \in DOMAIN storage
                  /\ f.vid \in DOMAIN tmpVideo'
                  /\ tmpVideo'[f.vid]
                       = Assemble(storage, f.org, f.vid, 0, TotalChunks(videos, f.vid))
            /\ (f.pc = "hls" /\ f.k = 1)
               => /\ last'.op = "probe"
                  /\ \E g \in BagToSet(run) : g.vid = f.vid /\ g.pc = "probe"
                  /\ videos'[f.vid].status = "processing"
                  /\ ProbeKeys \subseteq DOMAIN videos'[f.vid].metadata
            /\ (f.pc = "hls" /\ f.k > 1)
               => /\ last'.op = "transcode"
                  /\ \E g \in BagToSet(run) : g.vid = f.vid /\ g.pc = "hls" /\ g.k = f.k - 1
        /\ \A v \in DOMAIN videos :
            (v \in DOMAIN videos' /\ videos'[v].status = "processing"
               /\ videos[v].status # "processing")
            => /\ last'.op = "probe" /\ last'.vid = v
               /\ ProbeKeys \subseteq DOMAIN videos'[v].metadata ]_vars

\* the probe has returned and the first rendition of a single video is in flight
C33_Witness ==
    /\ last.op = "probe" /\ last.code = 0
    /\ videos[last.vid].status = "processing"
    /\ \E f \in BagToSet(run) : f.vid = last.vid /\ f.pc = "hls" /\ f.k = 1

\* the blob store holds every chunk 0..n-1 of video v of organisation org
FullChunkSet(store, org, v, n) ==
    \A i \in 0..(n - 1) : <<org, v, "chunks", ChunkFileName(i)>> \in DOMAIN store

\* the blob store holds the consolidated blob of video v
Consolidated(store, org, v) == <<org, v, "original.mp4">> \in DOMAIN store

\* the blob store holds the bytes of video v, as its n chunks or as one blob
BytesHeld(store, org, v, n) == FullChunkSet(store, org, v, n) \/ Consolidated(store, org, v)

\* complete() has passed the completeness check of a session of v that is still recorded
AssemblyOfSession(v) ==
    /\ "total_chunks" \in DOMAIN videos[v].metadata
    /\ AssemblyStarted(v)

(* C34: assembly never loses the bytes of a video: in every state from the start
   of complete() onward the blob store holds the full chunk set 0..N-1 of the
   video or its consolidated blob. *)
C34_BytesNeverLost ==
    \A v \in DOMAIN videos :
        AssemblyOfSession(v)
        => BytesHeld(storage, videos[v].organization_id, v, TotalChunks(videos, v))

\* C34 for the sessions in which exactly the indexes 0..N-1 were received
BytesHeldOfFullSessions ==
    \A v \in DOMAIN videos :
        (AssemblyOfSession(v) /\ Received(videos, v) = 0..(TotalChunks(videos, v) - 1))
        => BytesHeld(storage, videos[v].organization_id, v, TotalChunks(videos, v))

\* the order of lines 305-319: a step removes chunk blobs only as the step of
\* complete() that stored the consolidated blob with the chunks 0..N-1 as its
\* content, and a store that holds the bytes of a video holds them after the step
DeletionAfterUpload ==
    [][ \A v \in DOMAIN videos :
          LET org == videos[v].organization_id
              n == TotalChunks(videos, v)
              removed == {i \in 0..(MaxUploaded + 1) :
                            /\ <<org, v, "chunks", ChunkFileName(i)>> \in DOMAIN storage
                            /\ <<org, v, "chunks", ChunkFileName(i)>> \notin DOMAIN storage'}
          IN  /\ removed # {}
                 => /\ last'.op = "complete" /\ last'.code = 0 /\ last'.vid = v
                    /\ FullChunkSet(storage, org, v, n)
                    /\ Consolidated(storage', org, v)
                    /\ storage'[<<org, v, "original.mp4">>] = Assemble(storage, org, v, 0, n)
              /\ BytesHeld(storage, org, v, n) => BytesHeld(storage', org, v, n)
              /\ Consolidated(storage, org, v) => Consolidated(storage', org, v) ]_vars

\* the files a stored master manifest names, and the manifest itself
NamedFiles(master) == {"master.m3u8"} \cup {master[i].uri : i \in 1..Len(master)}

(* C35: every file named in a stored master manifest, and the master manifest
   itself, is retrievable through the HLS file endpoint for the same video and
   organisation: with the bucket answering, the endpoint answers 200 for it. *)
C35_ManifestFilesServed ==
    \A v \in DOMAIN videos :
        LET org == videos[v].organization_id
            at == <<"videos", org, v, "hls", "master.m3u8">>
        IN  at \in DOMAIN storage
            => \A name \in NamedFiles(storage[at]) :
                   get_hls_manifest(storage, v, org, name, "none").status_code = 200

\* what the response of the stream endpoint holds once the bucket was asked
BucketFields == {"url", "sent", "upstream", "body"}

(* C36: the stream endpoint serves bytes only for a video whose status is
   processed: for an unknown video id it answers 404, for a video whose status
   is uploaded, processing or failed it answers 400, and in both cases the
   bucket is not asked. *)
C36_StreamOnlyProcessed ==
    last.op = "stream"
    => LET v == last.out.request.name IN
       /\ v \notin DOMAIN videos
          => last.code = 404 /\ BucketFields \cap DOMAIN last.out = {}
       /\ (v \in DOMAIN videos /\ videos[v].status # "processed")
          => last.code = 400 /\ BucketFields \cap DOMAIN last.out = {}
       /\ BucketFields \cap DOMAIN last.out # {}
          => v \in DOMAIN videos /\ videos[v].status = "processed"

\* a request for a video that is still processing was turned away
C36_Witness ==
    /\ last.op = "stream" /\ last.code = 400
    /\ videos[last.vid].status = "processing"
    /\ "upstream" \notin DOMAIN last.out

(* C37: the status processed is reached only from the status processing, on the
   direct upload route as on the chunked one: every step that sets a record to
   processed finds it at processing. *)
C37_ProcessedFromProcessing ==
    [][ \A v \in DOMAIN videos :
          (v \in DOMAIN videos' /\ videos'[v].status = "processed"
             /\ videos[v].status # "processed")
          => videos[v].status = "processing" ]_vars

====
